---- MODULE Spec2Model ----
(***************************************************************************)
(* Inbound webhook path of the Hexabot Slack channel:                      *)
(*   SlackHandler.middleware -> SlackHandler.verifySlackRequest            *)
(*   SlackHandler.handle     -> SlackEventWrapper                          *)
(* (src/index.channel.ts, src/wrapper.ts).                                 *)
(***************************************************************************)
EXTENDS Integers, Sequences, FiniteSets, TLC

(***************************************************************************)
(* Bounds of the model.                                                    *)
(***************************************************************************)
MaxBodyLen == 1
MaxTs == 2
MaxPieces == 3

(***************************************************************************)
(* Values of the JavaScript runtime.                                       *)
(***************************************************************************)
\* parseInt's "not a number"; every real timestamp of the model is >= 0
NaN == -1

\* The raw body is a Buffer.  A unit is a byte, or the three bytes EF BF BD
\* (the UTF-8 encoding of U+FFFD) taken together; x80 is a lone continuation
\* byte, which is not valid UTF-8.
Units == {"a", "x80", "xEFBFBD"}
RawBodies == UNION {[1..n -> Units] : n \in 0..MaxBodyLen}

\* `${options.body}`: Buffer.prototype.toString() decodes UTF-8 and puts
\* U+FFFD in the place of every invalid byte.
BufferToString(buf) ==
  [i \in 1..Len(buf) |-> IF buf[i] = "a" THEN "a" ELSE "U+FFFD"]

\* hmac.update(string) hashes the UTF-8 encoding of the string.
Utf8Encode(str) ==
  [i \in 1..Len(str) |-> IF str[i] = "a" THEN "a" ELSE "xEFBFBD"]

\* The text of a timestamp header: leading decimal digits (NaN: none) and
\* what follows them.
TsText(digits, suffix) == [digits |-> digits, suffix |-> suffix]
TsSuffixes == {"", "abc"}
TsTexts == {TsText(d, s) : d \in {NaN} \cup (0..MaxTs), s \in TsSuffixes}

\* parseInt(text): the leading digits, whatever follows them.
ParseInt(text) == text.digits

\* `${requestTimestampSec}`: the decimal text of a number.
NumberToString(n) == TsText(n, "")

\* createHmac('sha256', key).update(msg).digest('hex'), as an ideal keyed
\* hash: two digests are equal only for the same key and the same bytes.
Hmac(key, msg) == [key |-> key, msg |-> msg]

\* The bytes "{version}:{timestamp}:{body}".
BaseString(version, tsText, bodyBytes) ==
  [ver |-> version, ts |-> tsText, body |-> bodyBytes]

NoDigest == Hmac("", BaseString("", TsText(NaN, ""), <<>>))

\* A string that may hold a digest is a sequence of tokens; a token is a hex
\* digest or a piece of other text ("=" is the one-character text "=").
Hex(digest) == [d |-> digest, t |-> ""]
Txt(text) == [d |-> NoDigest, t |-> text]
EmptyString == <<>>

Secrets == {"s1", "s2"}

(***************************************************************************)
(* Request headers.  A header is absent (undefined) or carries a text.     *)
(***************************************************************************)
TsHeader(present, text) == [present |-> present, text |-> text]
NoTsHeader == TsHeader(FALSE, TsText(NaN, ""))
TsHeaders == {NoTsHeader} \cup {TsHeader(TRUE, t) : t \in TsTexts}

\* The signature header: absent, or a string of tokens.
SigHeader(present, text) == [present |-> present, text |-> text]
NoSigHeader == SigHeader(FALSE, EmptyString)

\* The timestamp texts a signer may have put in the base string for a
\* request that carries this timestamp header.
SignedTexts(tsHeader) ==
  {tsHeader.text, NumberToString(ParseInt(tsHeader.text))}

\* Digests that may appear in the signature header of a request.
Digests(tsHeader) ==
  {Hmac(k, BaseString("v0", t, b)) :
     k \in Secrets, t \in SignedTexts(tsHeader), b \in RawBodies}

\* absent, "", "v0", and {v0,v1} "=" digest [X] ["=" X]
SigHeaders(tsHeader) ==
  {NoSigHeader, SigHeader(TRUE, EmptyString), SigHeader(TRUE, <<Txt("v0")>>)}
  \cup
  {SigHeader(TRUE, <<Txt(v), Txt("="), Hex(d)>> \o tail \o more) :
     v \in {"v0", "v1"}, d \in Digests(tsHeader),
     tail \in {<<>>, <<Txt("X")>>},
     more \in {<<>>, <<Txt("="), Txt("X")>>}}

(***************************************************************************)
(* SlackHandler.verifySlackRequest                                         *)
(***************************************************************************)
MaxStaleTimestampMinutes == 5

\* str.split('='): the pieces of str between the "=" characters.
RECURSIVE SplitFrom(_, _, _)
SplitFrom(str, i, piece) ==
  IF i > Len(str) THEN <<piece>>
  ELSE IF str[i] = Txt("=")
       THEN <<piece>> \o SplitFrom(str, i + 1, <<>>)
       ELSE SplitFrom(str, i + 1, Append(piece, str[i]))
Split(str) == SplitFrom(str, 1, <<>>)

\* tsscmp(a, b): constant-time string equality.
Tsscmp(a, b) == a = b

\* !requestTimestampSec
FalsyNumber(n) == n = 0 \/ n = NaN

\* Math.floor(nowMs / 1000) - 60 * maxStaleTimestampMinutes
StaleTimestampThresholdSec(now) ==
  (now \div 1000) - 60 * MaxStaleTimestampMinutes

\* requestTimestampSec < staleTimestampThresholdSec
IsStale(requestTimestampSec, now) ==
  requestTimestampSec < StaleTimestampThresholdSec(now)

\* hmac.update(`${signatureVersion}:${requestTimestampSec}:${options.body}`)
\* and its hex digest.
OurSignatureHash(signingSecret, requestTimestampSec, body) ==
  <<Hex(Hmac(signingSecret,
             BaseString("v0", NumberToString(requestTimestampSec),
                        Utf8Encode(BufferToString(body)))))>>

\* !signatureHash || !tsscmp(signatureHash, ourSignatureHash), where
\* [signatureVersion, signatureHash] = signature.split('=')
HashMismatch(parts, ours) ==
  \/ Len(parts) < 2
  \/ parts[2] = EmptyString
  \/ ~Tsscmp(parts[2], ours)

\* The outcome of verifySlackRequest: "ok" when it returns, otherwise the
\* error it throws.
VerifySlackRequest(signingSecret, body, tsHeader, sigHeader, now) ==
  IF ~tsHeader.present \/ ~sigHeader.present
  THEN "TypeError"                          \* undefined.toString()
  ELSE
    LET requestTimestampSec == ParseInt(tsHeader.text)
        signature == sigHeader.text
        parts == Split(signature)
    IN  IF FalsyNumber(requestTimestampSec) \/ signature = EmptyString
        THEN "MissingSignatureHeaders"
        ELSE IF requestTimestampSec = NaN
        THEN "TimestampType"
        ELSE IF IsStale(requestTimestampSec, now)
        THEN "Stale"
        ELSE IF parts[1] # <<Txt("v0")>>
        THEN "UnknownSignatureVersion"
        ELSE IF HashMismatch(parts,
                  OurSignatureHash(signingSecret, requestTimestampSec, body))
        THEN "SignatureMismatch"
        ELSE "ok"

(***************************************************************************)
(* Parsed bodies.  A field that a body does not have is "absent" (strings), *)
(* <<>> (objects) or state "absent" (arrays); "undefined" is a key that is  *)
(* present with the value undefined.                                        *)
(***************************************************************************)
Array(state, items) == [state |-> state, items |-> items]
NoArray == Array("absent", <<>>)
UndefinedArray == Array("undefined", <<>>)

\* Conversation identifiers, as their characters.
ChannelIds == {<<"D", "1">>, <<"C", "1">>}
NoChannel == <<>>

\* User identifiers, as their characters.
UserIds == {<<"U", "1">>}
NoUser == <<>>

\* The inner event of an event callback.  text "absent": the event has no
\* text key, "undefined": the key is there with the value undefined.
\* ts: the timestamp of the event, the same for the events of the model
\* unless said otherwise.
InnerEvent(type, text, files, bot_id, channel, channel_type, user) ==
  [type |-> type, text |-> text, files |-> files, bot_id |-> bot_id,
   channel |-> channel, channel_type |-> channel_type, user |-> user,
   ts |-> "1.1"]

InnerEvents ==
  {InnerEvent(ty, tx, fl, bot, ch, ct, us) :
     ty \in {"message", "app_mention"},
     tx \in {"absent", "", "hi"},
     fl \in {NoArray, Array("array", <<>>), Array("array", <<"f1">>)},
     bot \in {"absent", "B1"},
     ch \in ChannelIds \cup {NoChannel},
     ct \in {"absent", "im", "channel"},
     us \in UserIds \cup {NoUser}}
  \cup
  {InnerEvent("message", "<@U12345678> hi", fl, "absent", <<"C", "1">>,
              "channel", <<"U", "1">>) :
     fl \in {NoArray, Array("array", <<"f1">>)}}
  \cup
  {InnerEvent("message", tx, Array("array", <<"f1", "f2">>), bot, <<"D", "1">>,
              "im", <<"U", "1">>) :
     tx \in {"absent", "hi"}, bot \in {"absent", "B1"}}
  \cup
  {InnerEvent(ty, "absent", NoArray, "absent", <<"D", "1">>, "absent",
              <<"U", "1">>) :
     ty \in {"app_home_opened", "reaction_added"}}
  \cup
  {[InnerEvent("message", "hi", NoArray, "absent", <<"D", "1">>, "im",
               <<"U", "1">>) EXCEPT !.ts = "absent"]}

DefaultEvent ==
  InnerEvent("message", "hi", NoArray, "absent", <<"D", "1">>, "im",
             <<"U", "1">>)

\* A JSON object: the request body without its payload field, or the object
\* a payload string holds.
\* user: user.id; callback_id: the callback_id of the first attachment of
\* the message the interactive component lives on; message: message.ts, the
\* timestamp of that message ("absent": the body has no message), the same
\* for the bodies with actions of the model unless said otherwise.
Obj(type, challenge, event, actions, channel, command, user, callback_id) ==
  [type |-> type, challenge |-> challenge, event |-> event,
   actions |-> actions, channel |-> channel, command |-> command,
   user |-> user, callback_id |-> callback_id,
   message |-> IF actions.state = "array" THEN "1.1" ELSE "absent"]

Action(value) == [value |-> value]
NoObj ==
  Obj("absent", "absent", <<>>, NoArray, NoChannel, "absent", NoUser,
      "absent")

\* A string that is meant to hold JSON: no such field, text that is not
\* JSON, the text "null", or the serialisation of an object.
JsonText(kind, value) == [kind |-> kind, value |-> value]
NoPayload == JsonText("absent", NoObj)

\* The objects interactive payloads hold.
PayloadObjs ==
  {Obj(ty, "absent", <<>>, ac, ch, "absent", us, cb) :
     ty \in {"block_actions", "interactive_message"},
     ac \in {NoArray, Array("array", <<>>),
             Array("array", <<Action("url")>>),
             Array("array", <<Action("yes")>>)},
     ch \in ChannelIds \cup {NoChannel},
     us \in UserIds \cup {NoUser},
     cb \in {"absent", "quick_replies"}}
  \cup
  {[Obj("block_actions", "absent", <<>>, Array("array", <<Action("yes")>>),
        <<"D", "1">>, "absent", <<"U", "1">>, "absent")
      EXCEPT !.message = "absent"]}

DefaultPayloadObj ==
  Obj("block_actions", "absent", <<>>, Array("array", <<Action("yes")>>),
      <<"D", "1">>, "absent", <<"U", "1">>, "absent")

\* req.body
Body(fields, payload) == [fields |-> fields, payload |-> payload]
EmptyBody == Body(NoObj, NoPayload)

\* Every combination of the fields the classification looks at.
ShapeBodies ==
  {Body(Obj(ty, IF ty = "url_verification" THEN ch ELSE "absent",
            ev, ac, NoChannel, cmd, NoUser, "absent"), pl) :
     ty \in {"absent", "url_verification", "event_callback", "block_actions"},
     ch \in {"abc123", ""},
     ev \in {<<>>, <<DefaultEvent>>},
     ac \in {NoArray, Array("array", <<Action("yes")>>),
             Array("array", <<Action("url")>>)},
     cmd \in {"absent", "/cmd"},
     pl \in {NoPayload, JsonText("malformed", NoObj), JsonText("null", NoObj),
             JsonText("object", DefaultPayloadObj)}}

\* Event callbacks with every inner event.
EventBodies ==
  {Body(Obj(ty, "absent", <<ev>>, NoArray, NoChannel, "absent", NoUser,
            "absent"), NoPayload) :
     ty \in {"event_callback", "absent"}, ev \in InnerEvents}

\* Interactive payloads with every payload object.
PayloadBodies ==
  {Body(NoObj, JsonText("object", o)) : o \in PayloadObjs}

Bodies == ShapeBodies \cup EventBodies \cup PayloadBodies

\* JSON.parse(text): the value, or a SyntaxError.
JsonParse(text) ==
  [threw |-> text.kind = "malformed",
   isNull |-> text.kind = "null",
   value |-> text.value]

(***************************************************************************)
(* Requests.                                                               *)
(***************************************************************************)
Request(tsHeader, sigHeader, rawBody, body) ==
  [tsHeader |-> tsHeader, sigHeader |-> sigHeader, rawBody |-> rawBody,
   body |-> body]

NoRequest == Request(NoTsHeader, NoSigHeader, <<>>, EmptyBody)

\* Date.now(), in milliseconds.
NowMsValues == {302000, 302999}

(***************************************************************************)
(* SlackEventWrapper (src/wrapper.ts)                                      *)
(***************************************************************************)
\* id.startsWith('D') ? 'im' : 'channel'
ChannelTypeOfId(id) == IF id[1] = "D" THEN "im" ELSE "channel"

\* static getChannelType(e): the channel type it returns ("undefined" when
\* it returns nothing), or threw when it reads a property of undefined.
GetChannelType(e) ==
  IF e.type = "block_actions"
  THEN IF e.channel = NoChannel
       THEN [threw |-> TRUE, value |-> "undefined"]
       ELSE [threw |-> FALSE, value |-> ChannelTypeOfId(e.channel)]
  ELSE IF e.type = "event_callback"
  THEN IF e.event = <<>>
       THEN [threw |-> TRUE, value |-> "undefined"]
       ELSE LET event == e.event[1]
            IN  IF event.type = "message"
                THEN [threw |-> FALSE,
                      value |-> IF event.channel_type = "absent"
                                THEN "undefined" ELSE event.channel_type]
                ELSE IF event.channel = NoChannel
                THEN [threw |-> TRUE, value |-> "undefined"]
                ELSE [threw |-> FALSE,
                      value |-> ChannelTypeOfId(event.channel)]
  ELSE [threw |-> FALSE, value |-> "undefined"]

\* Mutant: an event with files is not taken for an echo.
InitAdapter_EchoUnlessFiles(e) ==
  IF e.type = "block_actions"
  THEN [eventType |-> "message", messageType |-> "postback"]
  ELSE IF e.type = "event_callback"
  THEN [eventType |-> IF /\ e.event[1].bot_id # "absent"
                         /\ e.event[1].files.state # "array"
                      THEN "echo" ELSE "message",
        messageType |-> IF e.event[1].files.state = "array"
                        THEN "attachments" ELSE "message"]
  ELSE [eventType |-> "unknown", messageType |-> "undefined"]

\* _init(e): the event type and the message type of the adapter.
InitAdapter(e) ==
  IF e.type = "block_actions"
  THEN [eventType |-> "message", messageType |-> "postback"]
  ELSE IF e.type = "event_callback"
  THEN [eventType |-> IF e.event[1].bot_id # "absent"
                      THEN "echo" ELSE "message",
        messageType |-> IF e.event[1].files.state = "array"
                        THEN "attachments" ELSE "message"]
  ELSE [eventType |-> "unknown", messageType |-> "undefined"]

\* Mutant: the quick-reply callback id of the message is looked at first.
Wrapper_QuickReplyFirst(e) ==
  [raw |-> e, channelType |-> GetChannelType(e).value,
   eventType |-> InitAdapter(e).eventType,
   messageType |-> IF e.callback_id = "quick_replies"
                   THEN "quick_reply" ELSE InitAdapter(e).messageType]

\* new SlackEventWrapper(handler, e)
Wrapper(e) ==
  [raw |-> e, channelType |-> GetChannelType(e).value,
   eventType |-> InitAdapter(e).eventType,
   messageType |-> InitAdapter(e).messageType]

\* What a getter gives back: the value it returns, or the error it throws.
Result(threw, error, value) ==
  [threw |-> threw, error |-> error, value |-> value]

\* An identifier that is undefined.
NoId == <<>>

\* getId(): the timestamp it returns ("undefined": the body has none)
GetId(w) ==
  IF w.raw.type = "event_callback"
  THEN Result(FALSE, "", IF w.raw.event[1].ts = "absent"
                         THEN "undefined" ELSE w.raw.event[1].ts)
  ELSE IF w.raw.message = "absent"
  THEN Result(TRUE, "TypeError", "undefined")          \* raw.message.ts
  ELSE Result(FALSE, "", w.raw.message)

\* getUserForeignId()
GetUserForeignId(w) ==
  IF w.channelType = "im"
  THEN IF w.raw.type = "block_actions"
       THEN IF w.raw.user = NoUser
            THEN Result(TRUE, "TypeError", NoId)       \* e.user.id
            ELSE Result(FALSE, "", w.raw.user)
       ELSE IF w.raw.type = "event_callback"
       THEN Result(FALSE, "", w.raw.event[1].user)
       ELSE Result(TRUE, "Unable to extract user id!", NoId)
  ELSE Result(TRUE, "Unable to extract user id!", NoId)

\* Mutant: the user identifier in a direct conversation.
GetSenderForeignId_UserWhenDirect(w) ==
  IF w.raw.type = "block_actions"
  THEN IF w.raw.channel = NoChannel
       THEN Result(TRUE, "TypeError", NoId)
       ELSE Result(FALSE, "", w.raw.channel)
  ELSE IF w.raw.type = "event_callback"
  THEN Result(FALSE, "", IF w.channelType = "im"
                         THEN w.raw.event[1].user
                         ELSE w.raw.event[1].channel)
  ELSE Result(TRUE, "Unable to extract conversation id!", NoId)

\* getSenderForeignId()
GetSenderForeignId(w) ==
  IF w.raw.type = "block_actions"
  THEN IF w.raw.channel = NoChannel
       THEN Result(TRUE, "TypeError", NoId)            \* e.channel.id
       ELSE Result(FALSE, "", w.raw.channel)
  ELSE IF w.raw.type = "event_callback"
  THEN Result(FALSE, "", w.raw.event[1].channel)
  ELSE Result(TRUE, "Unable to extract conversation id!", NoId)

\* Mutant: nothing unless the event is an echo.
GetRecipientForeignId_NullUnlessEcho(w) ==
  IF w.raw.type = "block_actions"
  THEN IF w.raw.channel = NoChannel
       THEN Result(TRUE, "TypeError", NoId)
       ELSE Result(FALSE, "", NoId)
  ELSE IF w.raw.type = "event_callback"
  THEN Result(FALSE, "", IF w.eventType = "echo"
                         THEN w.raw.event[1].channel ELSE NoId)
  ELSE Result(TRUE, "Unable to extract channel id!", NoId)

\* getRecipientForeignId()
GetRecipientForeignId(w) ==
  IF w.raw.type = "block_actions"
  THEN IF w.raw.channel = NoChannel
       THEN Result(TRUE, "TypeError", NoId)            \* e.channel.id
       ELSE Result(FALSE, "", w.raw.channel)
  ELSE IF w.raw.type = "event_callback"
  THEN Result(FALSE, "", w.raw.event[1].channel)
  ELSE Result(TRUE, "Unable to extract channel id!", NoId)

\* A payload: undefined, the value of a button, or an attachment given by
\* the private url of a file.
Payload(kind, value) == [kind |-> kind, value |-> value]
NoPayloadValue == Payload("undefined", "")

\* getPayload()
GetPayload(w) ==
  IF w.eventType = "message"
  THEN IF w.messageType = "postback"
       THEN IF w.raw.actions.state # "array"
            THEN Result(TRUE, "TypeError", NoPayloadValue)   \* actions[0]
            ELSE IF w.raw.actions.items = <<>>
            THEN Result(FALSE, "", NoPayloadValue)
            ELSE Result(FALSE, "",
                        Payload("string", w.raw.actions.items[1].value))
       ELSE IF w.messageType = "attachments"
       THEN LET files == w.raw.event[1].files
            IN  IF files.state = "array" /\ files.items # <<>>
                THEN Result(FALSE, "", Payload("attachments", files.items[1]))
                ELSE Result(FALSE, "", NoPayloadValue)
       ELSE Result(FALSE, "", NoPayloadValue)
  ELSE Result(FALSE, "", NoPayloadValue)

\* A text as the sequence of its pieces: "<@", ">", a blank, the letters "U"
\* and "W", "4" (four characters of A-Z0-9), "|l" (a bar and a label without
\* ">") and "h" (a word in lower case).
AlnumLen(c) == IF c \in {"U", "W"} THEN 1 ELSE IF c = "4" THEN 4 ELSE 0

\* The first index from i on where the text has no character of A-Z0-9.
RECURSIVE AlnumEnd(_, _)
AlnumEnd(t, i) ==
  IF i > Len(t) \/ AlnumLen(t[i]) = 0 THEN i ELSE AlnumEnd(t, i + 1)

\* The number of characters of A-Z0-9 in t[i..j-1].
RECURSIVE AlnumCount(_, _, _)
AlnumCount(t, i, j) ==
  IF i >= j THEN 0 ELSE AlnumLen(t[i]) + AlnumCount(t, i + 1, j)

\* The first index from i on where the text has ">" (Len(t) + 1: nowhere).
RECURSIVE CloseAt(_, _)
CloseAt(t, i) ==
  IF i > Len(t) \/ t[i] = ">" THEN i ELSE CloseAt(t, i + 1)

\* The number of pieces /<@U[A-Z0-9]{8,11}(?:\|[^>]+)?>/ matches at index i
\* of the text (0: no match there).
MatchLen(t, i) ==
  IF t[i] # "<@" \/ i + 1 > Len(t) THEN 0
  ELSE IF t[i + 1] # "U" THEN 0
  ELSE LET j == AlnumEnd(t, i + 2)
       IN  IF AlnumCount(t, i + 2, j) \notin 8..11 \/ j > Len(t) THEN 0
           ELSE IF t[j] = ">" THEN j - i + 1
           ELSE IF t[j] = "|l" /\ CloseAt(t, j) <= Len(t)
           THEN CloseAt(t, j) - i + 1
           ELSE 0

\* text.replace(/.../g, ''), from index i on: one pass from left to right,
\* what is left after a match is not looked at again together with what
\* came before it.
RECURSIVE Replace(_, _)
Replace(t, i) ==
  IF i > Len(t) THEN <<>>
  ELSE IF MatchLen(t, i) > 0 THEN Replace(t, i + MatchLen(t, i))
  ELSE <<t[i]>> \o Replace(t, i + 1)

\* text.trim()
RECURSIVE Trim(_)
Trim(t) ==
  IF t = <<>> THEN t
  ELSE IF t[1] = " " THEN Trim(Tail(t))
  ELSE IF t[Len(t)] = " " THEN Trim(SubSeq(t, 1, Len(t) - 1))
  ELSE t

\* removeSlackMentions(text), on the pieces of the text
RemoveSlackMentionsOf(t) == Trim(Replace(t, 1))

\* The pieces of the texts the inner events of the model carry.
PiecesOf(text) ==
  IF text = "" THEN <<>>
  ELSE IF text = "hi" THEN <<"h">>
  ELSE <<"<@", "U", "4", "4", ">", " ", "h">>       \* "<@U12345678> hi"

\* removeSlackMentions(text), on the texts of the inner events of the model
RemoveSlackMentions(text) ==
  IF RemoveSlackMentionsOf(PiecesOf(text)) = <<>> THEN ""
  ELSE IF RemoveSlackMentionsOf(PiecesOf(text)) = <<"h">> THEN "hi"
  ELSE text

\* The texts removeSlackMentions is applied to: up to MaxPieces of a
\* mention, a mention with a label, a mention of a user whose identifier
\* begins with "W", the beginning and the end of a mention, a word, a blank.
TextPieces ==
  {<<"<@", "U", "4", "4", ">">>, <<"<@", "U", "4", "4", "|l", ">">>,
   <<"<@", "W", "4", "4", ">">>, <<"<@", "U", "4">>, <<"4", ">">>,
   <<"h">>, <<" ">>}

RECURSIVE Flatten(_)
Flatten(ps) == IF ps = <<>> THEN <<>> ELSE Head(ps) \o Flatten(Tail(ps))

MentionTexts ==
  {Flatten(ps) : ps \in UNION {[1..n -> TextPieces] : n \in 0..MaxPieces}}

\* A call of removeSlackMentions: its argument and, once it has returned,
\* its result.
MentionCall(raw, done, result) ==
  [raw |-> raw, done |-> done, result |-> result]
NoMention == MentionCall(<<>>, FALSE, <<>>)

\* A standard incoming message: undefined, a text, a postback, or
\* attachments (the private urls of the files).
Message(kind, text, postback, attachment) ==
  [kind |-> kind, text |-> text, postback |-> postback,
   attachment |-> attachment]
NoMessage == Message("undefined", "", "", <<>>)

\* getMessage()
GetMessage(w) ==
  IF w.messageType = "message"
  THEN LET text == w.raw.event[1].text
       IN  IF text \in {"absent", "undefined"}
           THEN Result(TRUE, "TypeError", NoMessage)   \* undefined.replace
           ELSE Result(FALSE, "",
                       Message("text", RemoveSlackMentions(text), "", <<>>))
  ELSE IF w.messageType = "postback"
  THEN IF w.raw.actions.state # "array" \/ w.raw.actions.items = <<>>
       THEN Result(TRUE, "TypeError", NoMessage)       \* actions[0].text
       ELSE Result(FALSE, "",
                   Message("postback", "", w.raw.actions.items[1].value,
                           <<>>))
  ELSE IF w.messageType = "attachments"
  THEN LET attachments == w.raw.event[1].files
       IN  IF attachments.items = <<>>
           THEN Result(TRUE, "TypeError", NoMessage)   \* attachments[0].url_private
           ELSE Result(FALSE, "",
                       Message("attachments", "attachment:", "",
                               attachments.items))
  ELSE Result(FALSE, "", NoMessage)

\* What the getters of a wrapper give: getChannelData, getEventType and
\* getMessageType give what the constructor stored, the others read the body
\* the wrapper refers to.
Getters(w) ==
  [constructed |-> TRUE, raw |-> w.raw,
   channelType |-> w.channelType,
   eventType |-> w.eventType,
   messageType |-> w.messageType,
   id |-> GetId(w),
   user |-> GetUserForeignId(w),
   sender |-> GetSenderForeignId(w),
   recipient |-> GetRecipientForeignId(w),
   payload |-> GetPayload(w),
   message |-> GetMessage(w)]

\* What the bot pipeline reads from an event: whether the wrapper could be
\* constructed and, if so, what each getter gives.
View(e) ==
  IF GetChannelType(e).threw
  THEN [constructed |-> FALSE]
  ELSE Getters(Wrapper(e))

\* The bodies a body can be changed to by code that holds a reference to it:
\* another value of the first action, another timestamp of the message, a
\* bot_id put on the inner event, its files taken away, another timestamp.
Mutations(e) ==
  (IF e.actions.state = "array" /\ e.actions.items # <<>>
   THEN {[e EXCEPT !.actions.items = <<Action("no")>>]} ELSE {})
  \cup
  (IF e.message # "absent" THEN {[e EXCEPT !.message = "2.2"]} ELSE {})
  \cup
  (IF e.event # <<>>
   THEN {[e EXCEPT !.event = <<[e.event[1] EXCEPT !.bot_id = "B9"]>>],
         [e EXCEPT !.event = <<[e.event[1] EXCEPT !.files = NoArray]>>],
         [e EXCEPT !.event = <<[e.event[1] EXCEPT !.ts = "2.2"]>>]}
   ELSE {})

\* The getters of the wrapper of an event, read a second time.
SecondRead(done, mutated, views) ==
  [done |-> done, mutated |-> mutated, views |-> views]
NoReread == SecondRead(FALSE, FALSE, <<>>)

(***************************************************************************)
(* SlackHandler.handle (src/index.channel.ts)                              *)
(***************************************************************************)
\* Mutant: the url_verification test gives way to an `event` field.
IsUrlVerificationEvent_UnlessEvent(data) ==
  data.type = "url_verification" /\ data.event = <<>>

\* 'type' in data && data.type === 'url_verification'
IsUrlVerificationEvent(data) == data.type = "url_verification"

\* 'event' in data
IsEvent(data) == data.event # <<>>

\* e.event.type === 'app_home_opened'
IsAppHomeOpenedEvent(e) == e.event[1].type = "app_home_opened"

\* Mutant: the type of the inner event is not looked at.
IsSupportedEvent_AnyInnerType(e) == e.type = "event_callback"

\* ['message', 'app_mention'].includes(e.event.type)
\*   && e.type === 'event_callback'
IsSupportedEvent(e) ==
  /\ e.event[1].type \in {"message", "app_mention"}
  /\ e.type = "event_callback"

\* separateTextAndAttachments(data)
SeparateTextAndAttachments(data) ==
  IF /\ IsEvent(data)
     /\ data.event[1].text # "absent"
     /\ data.event[1].files.state # "absent"
  THEN LET event == data.event[1]
           textPayload ==
             [data EXCEPT !.event = <<[event EXCEPT !.files = UndefinedArray]>>]
           filesPayload ==
             [data EXCEPT !.event = <<[event EXCEPT !.text = "undefined"]>>]
       IN  <<textPayload, filesPayload>>
  ELSE <<data>>

\* Mutant: the text is taken out of the event of the body itself.
SeparateLeaves_InPlace(data) ==
  IF /\ IsEvent(data)
     /\ data.event[1].text # "absent"
     /\ data.event[1].files.state # "absent"
  THEN [data EXCEPT !.event = <<[data.event[1] EXCEPT !.text = "undefined"]>>]
  ELSE data

\* What separateTextAndAttachments leaves in the body it was given: the two
\* payloads are new objects ({...data, event: {...restEvent, ...}}), the
\* body is not written to.
SeparateLeaves(data) == data

\* The try block of events.forEach for one event: what it adds to the
\* events given to eventEmitter.emit and to the log, and whether the catch
\* block ran.  emitThrows: a listener of the event raises inside emit.
ProcessEvent(e, emitThrows) ==
  IF GetChannelType(e).threw
  THEN [emitted |-> <<>>, logged |-> <<"Something went wrong">>,
        caught |-> TRUE]
  ELSE IF Wrapper(e).eventType # "unknown"
  THEN [emitted |-> <<Wrapper(e)>>,
        logged |-> IF emitThrows THEN <<"Something went wrong">> ELSE <<>>,
        caught |-> emitThrows]
  ELSE [emitted |-> <<>>, logged |-> <<"Webhook received unknown event">>,
        caught |-> FALSE]

\* Mutant: one try block around the whole loop; the first exception ends it.
RECURSIVE ProcessEvents_OneTry(_, _, _)
ProcessEvents_OneTry(events, throws, i) ==
  IF i > Len(events)
  THEN [emitted |-> <<>>, logged |-> <<>>]
  ELSE LET first == ProcessEvent(events[i], throws[i])
           rest == IF first.caught
                   THEN [emitted |-> <<>>, logged |-> <<>>]
                   ELSE ProcessEvents_OneTry(events, throws, i + 1)
       IN  [emitted |-> first.emitted \o rest.emitted,
            logged |-> first.logged \o rest.logged]

\* events.forEach, from the i-th event on
RECURSIVE ProcessEvents(_, _, _)
ProcessEvents(events, throws, i) ==
  IF i > Len(events)
  THEN [emitted |-> <<>>, logged |-> <<>>]
  ELSE LET first == ProcessEvent(events[i], throws[i])
           rest == ProcessEvents(events, throws, i + 1)
       IN  [emitted |-> first.emitted \o rest.emitted,
            logged |-> first.logged \o rest.logged]

\* What a run of handle leaves behind.  status 0: no response was sent;
\* data: the value of `data` (NoObj: undefined, or not reached); events:
\* what separateTextAndAttachments returned (<<>>: not reached).
Outcome(threw, status, sent, kind, emits, logs, data, events) ==
  [threw |-> threw, status |-> status, sent |-> sent, classified |-> kind,
   emitted |-> emits, logged |-> logs, data |-> data, events |-> events]

NoResponse == 0

\* Mutant: the loop has no try block, an exception ends handle.
DispatchEvents_NoCatch(data, kind, throws) ==
  LET events == SeparateTextAndAttachments(data)
      done == ProcessEvents_OneTry(events, throws, 1)
  IN  IF \E i \in 1..Len(events) : ProcessEvent(events[i], throws[i]).caught
      THEN Outcome(TRUE, NoResponse, "", kind, done.emitted, <<>>, data,
                   events)
      ELSE Outcome(FALSE, 200, "", kind, done.emitted, done.logged, data,
                   events)

\* handle, from "const events = ..." on
DispatchEvents(data, kind, throws) ==
  LET events == SeparateTextAndAttachments(data)
      done == ProcessEvents(events, throws, 1)
  IN  Outcome(FALSE, 200, "", kind, done.emitted, done.logged, data, events)

\* handle, from "if (this.isEvent(data))" on
HandleData(data, throws) ==
  IF IsEvent(data)
  THEN IF IsAppHomeOpenedEvent(data)
       THEN Outcome(FALSE, 200, "", "EventCallback", <<>>,
                    <<"handleAppHomeOpened">>, data, <<>>)
       ELSE IF ~IsSupportedEvent(data)
       THEN Outcome(FALSE, 200, "", "EventCallback", <<>>,
                    <<"Ignoring event">>, data, <<>>)
       ELSE DispatchEvents(data, "EventCallback", throws)
  ELSE IF data.actions.state # "array"
  THEN \* data.actions[0]: TypeError, the promise of handle is rejected
       Outcome(TRUE, NoResponse, "", "BlockAction", <<>>, <<>>, data, <<>>)
  ELSE IF /\ Len(data.actions.items) > 0
          /\ data.actions.items[1].value = "url"
  THEN Outcome(FALSE, 200, "", "BlockAction", <<>>,
               <<"Ignoring url postbacks">>, data, <<>>)
  ELSE DispatchEvents(data, "BlockAction", throws)

\* handle(req, res); throws[i]: a listener raises when the i-th event is
\* emitted.
HandleOutcome(body, throws) ==
  IF IsUrlVerificationEvent(body.fields)
  THEN Outcome(FALSE, 200, body.fields.challenge, "UrlVerification", <<>>,
               <<>>, NoObj, <<>>)
  ELSE IF body.payload.kind # "absent"
  THEN IF JsonParse(body.payload).threw
       THEN \* SyntaxError, the promise of handle is rejected
            Outcome(TRUE, NoResponse, "", "none", <<>>, <<>>, NoObj, <<>>)
       ELSE IF JsonParse(body.payload).isNull
       THEN Outcome(FALSE, 400, "", "Unknown", <<>>, <<"Unknown event!">>,
                    NoObj, <<>>)
       ELSE HandleData(JsonParse(body.payload).value, throws)
  ELSE IF IsEvent(body.fields)
  THEN HandleData(body.fields, throws)
  ELSE Outcome(FALSE, 400, "", "Unknown", <<>>, <<"Unknown event!">>, NoObj,
               <<>>)

\* An entry of the list getMessageAttachments returns: the stream the
\* download url of the remote file gave.
AttachmentFile(remoteFile) == [file |-> remoteFile]

\* Mutant: a file whose download fails is left out of the list.
RECURSIVE FetchFiles_SkipFailed(_, _, _, _)
FetchFiles_SkipFailed(remoteFiles, fetchOk, i, files) ==
  IF i > Len(remoteFiles)
  THEN Result(FALSE, "", files)
  ELSE IF ~fetchOk[i]
  THEN FetchFiles_SkipFailed(remoteFiles, fetchOk, i + 1, files)
  ELSE FetchFiles_SkipFailed(remoteFiles, fetchOk, i + 1,
                             Append(files, AttachmentFile(remoteFiles[i])))

\* for (const remoteFile of remoteFiles), from the i-th file on; files: the
\* list built so far; fetchOk[i]: the download of the i-th file succeeds.
RECURSIVE FetchFiles(_, _, _, _)
FetchFiles(remoteFiles, fetchOk, i, files) ==
  IF i > Len(remoteFiles)
  THEN Result(FALSE, "", files)
  ELSE IF ~fetchOk[i]
  THEN Result(TRUE, "AxiosError", <<>>)          \* the promise is rejected
  ELSE FetchFiles(remoteFiles, fetchOk, i + 1,
                  Append(files, AttachmentFile(remoteFiles[i])))

\* getMessageAttachments(event)
GetMessageAttachments(w, fetchOk) ==
  IF w.eventType = "message" /\ w.messageType = "attachments"
  THEN FetchFiles(w.raw.event[1].files.items, fetchOk, 1, <<>>)
  ELSE Result(FALSE, "", <<>>)

\* The files getMessageAttachments downloads for an event.
RemoteFiles(w) ==
  IF w.eventType = "message" /\ w.messageType = "attachments"
  THEN w.raw.event[1].files.items ELSE <<>>

\* A call of getMessageAttachments: the emitted event it is given, the
\* outcome of each download, and what it gives back.
PrefetchCall(ran, event, fetchOk, result) ==
  [ran |-> ran, event |-> event, fetchOk |-> fetchOk, result |-> result]
NoPrefetch == PrefetchCall(FALSE, 0, <<>>, Result(FALSE, "", <<>>))

\* A well-formed signature header: "v0=" and the digest of the base string.
SignatureOf(secret, tsText, rawBody) ==
  SigHeader(TRUE, <<Txt("v0"), Txt("="),
                    Hex(Hmac(secret, BaseString("v0", tsText, rawBody)))>>)

\* The calls the webhook receives: every body, with and without the
\* headers, stale and fresh, signed under either secret.
WebhookRequests ==
  {Request(ts, sig, <<"a">>, b) :
     ts \in {NoTsHeader, TsHeader(TRUE, TsText(1, "")),
             TsHeader(TRUE, TsText(2, ""))},
     sig \in {NoSigHeader}
             \cup {SignatureOf(k, TsText(2, ""), <<"a">>) : k \in Secrets},
     b \in Bodies}

(***************************************************************************)
(* Settings of the channel and the client of the Web API.                  *)
(***************************************************************************)
Tokens == {"t1", "t2"}

\* this.api before init() has run.
NoClient == "none"

\* The settings of the channel.
Settings(secret, token) == [signing_secret |-> secret, access_token |-> token]
NoSettings == Settings("none", "none")

\* A call to the platform: through the client this.api, or a download with
\* an Authorization header, and the access token it carries.
PlatformCall(via, token) == [via |-> via, token |-> token]
NoCall == PlatformCall("none", "none")

\* Mutant: the client built by init() is kept.
UpdateAccessToken_KeepClient(client, setting) == client

\* updateAccessToken(setting): this.api = new WebClient(setting?.value)
UpdateAccessToken(client, setting) == setting

\* A second normalisation of a parsed body: the body as it was given the
\* first time, and what the getters of the wrappers of the second time give.
Replay(given, done, views) == [given |-> given, done |-> done, views |-> views]
NoReplay == Replay(NoObj, FALSE, <<>>)

(***************************************************************************)
(* Stored attachments and their upload to Slack.                           *)
(***************************************************************************)
Attachments == {"a1", "a2"}

\* Who calls uploadImageIfNotExists: UploadAllStoredAttachements, the
\* listener of hook:attachment:postCreate, the sending of an attachment.
Callers == {"sweep", "hook", "send"}

\* attachment.channel['slack-channel']: nothing, or the file Slack made of
\* an upload (n: the n-th upload of the attachment).
SlackFile(n) == [slackFile |-> n]
NoFile == SlackFile(0)

\* A call of uploadImageIfNotExists: where it is, the attachment object it
\* was given (what the database held when the object was read), the file
\* Slack returned, and the attachment it returns.
UploadCall(at, given, file, returned) ==
  [at |-> at, given |-> given, file |-> file, returned |-> returned]
NoUpload == UploadCall("idle", NoFile, NoFile, NoFile)

\* if (attachment.channel?.[this.getName()]), on the attachment object the
\* call was given
AlreadyUploaded(given) == given # NoFile

\* uploadImageIfNotExists(attachment), up to its first await
UploadImageIfNotExists(given) ==
  IF AlreadyUploaded(given)
  THEN UploadCall("done", given, NoFile, given)
  ELSE UploadCall("uploading", given, NoFile, NoFile)

(***************************************************************************)
(* The state.                                                              *)
(***************************************************************************)
VARIABLES
  pc,              \* position of the inbound call
  nowMs,           \* Date.now()
  signing_secret,  \* settings.signing_secret
  req,             \* the inbound request
  verdict,         \* outcome of verifySlackRequest for the call
  nextCalled,      \* middleware called next()
  res,             \* the response sent for the call
  classified,      \* the branch handle took for the body
  emitted,         \* events given to eventEmitter.emit, in order
  logged,          \* what handle logged for the call
  handleRan,       \* handle was entered for the call
  handleThrew,     \* handle ended in an exception (its promise is rejected)
  data,            \* the parsed body handle works on
  events,          \* what separateTextAndAttachments returned
  emitThrew,       \* emitThrew[i]: a listener raised on the i-th event
  views,           \* what the getters of the wrapper of each event give
  prefetch,        \* the call of getMessageAttachments on an emitted event
  access_token,    \* settings.access_token
  api,             \* the access token the client this.api was built with
  lastCall,        \* the last call to the platform made for the inbound call
  previous,        \* each setting before its last change
  replay,          \* the same parsed body normalised a second time
  mention,         \* a text and what removeSlackMentions makes of it
  store,           \* store[a]: the Slack file of attachment a in the database
  uploaded,        \* uploaded[a]: the uploads of a that Slack has accepted
  calls,           \* the calls of uploadImageIfNotExists
  reread           \* the getters of the wrappers, read a second time

vars == <<pc, nowMs, signing_secret, req, verdict, nextCalled, res,
          classified, emitted, logged, handleRan, handleThrew, data, events,
          emitThrew, views, prefetch, access_token, api, lastCall,
          previous, replay, mention, store, uploaded, calls, reread>>

\* The state of the inbound call and of the settings.
inboundVars ==
  <<pc, nowMs, signing_secret, req, verdict, nextCalled, res, classified,
    emitted, logged, handleRan, handleThrew, data, events, emitThrew, views,
    prefetch, access_token, api, lastCall, previous, replay>>

\* The state of the attachments.
uploadVars == <<store, uploaded, calls>>

\* The state outside the inbound call.
restVars == <<mention, store, uploaded, calls, reread>>

\* No attachment is stored and no upload has been asked for.
UploadsAtRest ==
  /\ store = [a \in Attachments |-> NoFile]
  /\ uploaded = [a \in Attachments |-> 0]
  /\ calls = [c \in Callers, a \in Attachments |-> NoUpload]

RestAtRest == mention = NoMention /\ UploadsAtRest /\ reread = NoReread

settingsVars == <<access_token, api, lastCall, previous>>

\* The handler is initialised and the settings have not been changed.
SettingsAtRest ==
  /\ RestAtRest
  /\ access_token = "t1"
  /\ api = access_token
  /\ lastCall = NoCall
  /\ previous = NoSettings

Response(status, body) == [status |-> status, body |-> body]

\* Nothing has happened yet for the call.
FreshCall ==
  /\ verdict = "pending"
  /\ nextCalled = FALSE
  /\ res = Response(NoResponse, "")
  /\ classified = "none"
  /\ emitted = <<>>
  /\ logged = <<>>
  /\ handleRan = FALSE
  /\ handleThrew = FALSE
  /\ data = NoObj
  /\ events = <<>>
  /\ emitThrew = <<FALSE, FALSE>>
  /\ views = <<>>
  /\ prefetch = NoPrefetch

Init ==
  /\ pc = "idle"
  /\ nowMs \in NowMsValues
  /\ signing_secret \in Secrets
  /\ req = NoRequest
  /\ FreshCall
  /\ SettingsAtRest
  /\ replay = NoReplay

\* An inbound call arrives.
Receive ==
  /\ UNCHANGED restVars
  /\ pc = "idle"
  /\ pc' = "middleware"
  /\ req' \in WebhookRequests
  /\ nowMs' \in NowMsValues
  /\ UNCHANGED settingsVars
  /\ UNCHANGED replay
  /\ UNCHANGED <<signing_secret, verdict, nextCalled, res, classified,
                 emitted, logged, handleRan, handleThrew, data, events,
                 emitThrew, views,
                 prefetch>>

\* Mutant: the catch block is empty and next() is called after it.
MiddlewareOutcome_NextAfterCatch(v, nextThrows) ==
  IF v = "ok" /\ nextThrows
  THEN [nextCalled |-> TRUE, res |-> Response(401, "Unauthorized!"),
        pc |-> "done"]
  ELSE [nextCalled |-> TRUE, res |-> Response(NoResponse, ""),
        pc |-> "handle"]

\* Mutant: next() is called whatever verifySlackRequest says.
MiddlewareOutcome_NextWithoutVerdict(v, nextThrows) ==
  IF nextThrows
  THEN [nextCalled |-> TRUE, res |-> Response(401, "Unauthorized!"),
        pc |-> "done"]
  ELSE [nextCalled |-> TRUE, res |-> Response(NoResponse, ""),
        pc |-> "handle"]

\* What middleware does once verifySlackRequest has returned or thrown;
\* nextThrows: next() raises an exception.
MiddlewareOutcome(v, nextThrows) ==
  IF v = "ok"
  THEN IF nextThrows
       THEN [nextCalled |-> TRUE, res |-> Response(401, "Unauthorized!"),
             pc |-> "done"]
       ELSE [nextCalled |-> TRUE, res |-> Response(NoResponse, ""),
             pc |-> "handle"]
  ELSE [nextCalled |-> FALSE, res |-> Response(401, "Unauthorized!"),
        pc |-> "done"]

\* SlackHandler.middleware
Middleware ==
  /\ UNCHANGED restVars
  /\ pc = "middleware"
  /\ \E nextThrows \in BOOLEAN :
       LET v == VerifySlackRequest(signing_secret, req.rawBody, req.tsHeader,
                                   req.sigHeader, nowMs)
           o == MiddlewareOutcome(v, nextThrows)
       IN  /\ verdict' = v
           /\ nextCalled' = o.nextCalled
           /\ res' = o.res
           /\ pc' = o.pc
  /\ UNCHANGED settingsVars
  /\ UNCHANGED replay
  /\ UNCHANGED <<nowMs, signing_secret, req, classified, emitted, logged,
                 handleRan, handleThrew, data, events, emitThrew, views,
                 prefetch>>

\* SlackHandler.handle, reached through next()
Handle ==
  /\ UNCHANGED restVars
  /\ pc = "handle"
  /\ \E throws \in [1..2 -> BOOLEAN] :
       LET o == HandleOutcome(req.body, throws)
       IN  /\ res' = Response(o.status, o.sent)
           /\ classified' = o.classified
           /\ emitted' = o.emitted
           /\ logged' = o.logged
           /\ handleThrew' = o.threw
           /\ data' = o.data
           /\ events' = o.events
           /\ emitThrew' = [i \in 1..2 |->
                              /\ i <= Len(o.events)
                              /\ ProcessEvent(o.events[i], throws[i]).caught
                              /\ ~GetChannelType(o.events[i]).threw]
  /\ handleRan' = TRUE
  /\ pc' = "done"
  /\ UNCHANGED settingsVars
  /\ UNCHANGED replay
  /\ UNCHANGED <<nowMs, signing_secret, req, verdict, nextCalled, views,
                 prefetch>>

\* The call is over; calls are handled independently of each other.
Finish ==
  /\ UNCHANGED restVars
  /\ pc = "done"
  /\ pc' = "idle"
  /\ req' = NoRequest
  /\ verdict' = "pending"
  /\ nextCalled' = FALSE
  /\ res' = Response(NoResponse, "")
  /\ classified' = "none"
  /\ emitted' = <<>>
  /\ logged' = <<>>
  /\ handleRan' = FALSE
  /\ handleThrew' = FALSE
  /\ data' = NoObj
  /\ events' = <<>>
  /\ emitThrew' = <<FALSE, FALSE>>
  /\ prefetch' = NoPrefetch
  /\ lastCall' = NoCall
  /\ UNCHANGED <<access_token, api, previous, replay>>
  /\ UNCHANGED <<nowMs, signing_secret, views>>

\* The bot pipeline calls getMessageAttachments on an event it was given.
Prefetch ==
  /\ UNCHANGED restVars
  /\ pc = "done"
  /\ ~prefetch.ran
  /\ \E i \in 1..Len(emitted) :
       \E fetchOk \in [1..Len(RemoteFiles(emitted[i])) -> BOOLEAN] :
         prefetch' = PrefetchCall(TRUE, i, fetchOk,
                                  GetMessageAttachments(emitted[i], fetchOk))
  /\ UNCHANGED settingsVars
  /\ UNCHANGED replay
  /\ UNCHANGED <<pc, nowMs, signing_secret, req, verdict, nextCalled, res,
                 classified, emitted, logged, handleRan, handleThrew, data,
                 events, emitThrew, views>>

Next == Receive \/ Middleware \/ Handle \/ Prefetch \/ Finish

Spec == Init /\ [][Next]_vars

(***************************************************************************)
(* verifySlackRequest on its own, applied to every timestamp header,       *)
(* signature header and raw body.                                          *)
(***************************************************************************)
InitAuth ==
  /\ pc = "verify"
  /\ nowMs \in NowMsValues
  /\ signing_secret \in Secrets
  /\ \E ts \in TsHeaders :
       \E sig \in SigHeaders(ts) :
         \E raw \in RawBodies :
           req = Request(ts, sig, raw, EmptyBody)
  /\ FreshCall
  /\ SettingsAtRest
  /\ replay = NoReplay

VerifyRequest ==
  /\ UNCHANGED restVars
  /\ pc = "verify"
  /\ verdict' = VerifySlackRequest(signing_secret, req.rawBody, req.tsHeader,
                                   req.sigHeader, nowMs)
  /\ pc' = "verified"
  /\ UNCHANGED settingsVars
  /\ UNCHANGED replay
  /\ UNCHANGED <<nowMs, signing_secret, req, nextCalled, res, classified,
                 emitted, logged, handleRan, handleThrew, data, events,
                 emitThrew, views,
                 prefetch>>

NextAuth == VerifyRequest

SpecAuth == InitAuth /\ [][NextAuth]_vars

(***************************************************************************)
(* separateTextAndAttachments and SlackEventWrapper on their own, applied  *)
(* to every parsed body that handle passes on to them.                     *)
(***************************************************************************)
\* The parsed bodies for which handle reaches separateTextAndAttachments.
WrapperInputs ==
  {d \in {b.fields : b \in EventBodies} \cup PayloadObjs :
     HandleData(d, <<FALSE, FALSE>>).events # <<>>}

InitWrapper ==
  /\ pc = "separate"
  /\ nowMs = 302000
  /\ signing_secret = "s1"
  /\ req = NoRequest
  /\ verdict = "ok"
  /\ nextCalled = TRUE
  /\ res = Response(NoResponse, "")
  /\ classified = "none"
  /\ emitted = <<>>
  /\ logged = <<>>
  /\ handleRan = TRUE
  /\ handleThrew = FALSE
  /\ data \in WrapperInputs
  /\ events = <<>>
  /\ emitThrew = <<FALSE, FALSE>>
  /\ views = <<>>
  /\ prefetch = NoPrefetch
  /\ SettingsAtRest
  /\ replay = Replay(data, FALSE, <<>>)

\* const events = this.separateTextAndAttachments(data)
Separate ==
  /\ UNCHANGED restVars
  /\ pc = "separate"
  /\ events' = SeparateTextAndAttachments(data)
  /\ data' = SeparateLeaves(data)
  /\ pc' = "normalize"
  /\ UNCHANGED settingsVars
  /\ UNCHANGED replay
  /\ UNCHANGED <<nowMs, signing_secret, req, verdict, nextCalled, res,
                 classified, emitted, logged, handleRan, handleThrew,
                 emitThrew, views, prefetch>>

\* new SlackEventWrapper(this, e) for each event, and the getters the
\* listeners of the emitted event call on it.
Normalize ==
  /\ UNCHANGED restVars
  /\ pc = "normalize"
  /\ views' = [i \in 1..Len(events) |-> View(events[i])]
  /\ pc' = "normalized"
  /\ UNCHANGED settingsVars
  /\ UNCHANGED replay
  /\ UNCHANGED <<nowMs, signing_secret, req, verdict, nextCalled, res,
                 classified, emitted, logged, handleRan, handleThrew, data,
                 events, emitThrew, prefetch>>

\* The parsed body is normalised once more: separateTextAndAttachments, and a
\* new wrapper with its getters for each event.
Renormalize ==
  /\ UNCHANGED restVars
  /\ pc = "normalized"
  /\ ~replay.done
  /\ replay' = Replay(replay.given, TRUE,
                      [i \in 1..Len(SeparateTextAndAttachments(data)) |->
                         View(SeparateTextAndAttachments(data)[i])])
  /\ data' = SeparateLeaves(data)
  /\ UNCHANGED <<pc, nowMs, signing_secret, req, verdict, nextCalled, res,
                 classified, emitted, logged, handleRan, handleThrew,
                 events, emitThrew, views, prefetch, access_token, api,
                 lastCall, previous>>

\* Code that holds a reference to the body of an event writes to it.
MutateRaw ==
  /\ pc = "normalized"
  /\ \E i \in 1..Len(events) :
       \E m \in Mutations(events[i]) :
         events' = [events EXCEPT ![i] = m]
  /\ reread' = SecondRead(FALSE, TRUE, <<>>)
  /\ pc' = "mutated"
  /\ UNCHANGED <<mention, store, uploaded, calls>>
  /\ UNCHANGED <<nowMs, signing_secret, req, verdict, nextCalled, res,
                 classified, emitted, logged, handleRan, handleThrew, data,
                 emitThrew, views, prefetch, access_token, api, lastCall,
                 previous, replay>>

\* The getters of the wrappers are called again; this._adapter.raw is the
\* body the wrapper was constructed with, as it is now.
Reread ==
  /\ pc \in {"normalized", "mutated"}
  /\ ~replay.done
  /\ reread' = SecondRead(TRUE, reread.mutated,
                       [i \in 1..Len(views) |->
                          IF views[i].constructed
                          THEN Getters([raw |-> events[i],
                                        channelType |-> views[i].channelType,
                                        eventType |-> views[i].eventType,
                                        messageType |-> views[i].messageType])
                          ELSE views[i]])
  /\ pc' = "reread"
  /\ UNCHANGED <<mention, store, uploaded, calls>>
  /\ UNCHANGED <<nowMs, signing_secret, req, verdict, nextCalled, res,
                 classified, emitted, logged, handleRan, handleThrew, data,
                 events, emitThrew, views, prefetch, access_token, api,
                 lastCall, previous, replay>>

NextWrapper ==
  Separate \/ Normalize \/ Renormalize \/ MutateRaw \/ Reread

SpecWrapper == InitWrapper /\ [][NextWrapper]_vars

(***************************************************************************)
(* The settings are changed while the handler runs: authentication and     *)
(* calls to the platform between changes of the signing secret and of the  *)
(* access token.                                                           *)
(***************************************************************************)
InitSettings ==
  /\ pc = "start"
  /\ RestAtRest
  /\ nowMs = 302000
  /\ signing_secret \in Secrets
  /\ access_token \in Tokens
  /\ api = NoClient
  /\ lastCall = NoCall
  /\ previous = NoSettings
  /\ replay = NoReplay
  /\ req = NoRequest
  /\ FreshCall

\* init(): this.api = new WebClient(settings?.access_token)
HandlerInit ==
  /\ UNCHANGED restVars
  /\ pc = "start"
  /\ api' = access_token
  /\ pc' = "idle"
  /\ UNCHANGED <<nowMs, signing_secret, req, verdict, nextCalled, res,
                 classified, emitted, logged, handleRan, handleThrew, data,
                 events, emitThrew, views, prefetch, access_token, lastCall,
                 previous, replay>>

\* The signing secret is changed in the settings, between two inbound calls.
\* No handler of the channel listens to this change.
ChangeSigningSecret ==
  /\ UNCHANGED restVars
  /\ pc \in {"start", "idle"}
  /\ \E s \in Secrets \ {signing_secret} :
       /\ signing_secret' = s
       /\ previous' = [previous EXCEPT !.signing_secret = signing_secret]
  /\ UNCHANGED <<pc, nowMs, req, verdict, nextCalled, res, classified,
                 emitted, logged, handleRan, handleThrew, data, events,
                 emitThrew, views, prefetch, access_token, api, lastCall,
                 replay>>

\* The access token is changed in the settings, between two inbound calls,
\* and hook:slack_channel:access_token is emitted: updateAccessToken runs.
ChangeAccessToken ==
  /\ UNCHANGED restVars
  /\ pc \in {"start", "idle"}
  /\ \E t \in Tokens \ {access_token} :
       /\ access_token' = t
       /\ api' = UpdateAccessToken(api, t)
       /\ previous' = [previous EXCEPT !.access_token = access_token]
  /\ UNCHANGED <<pc, nowMs, signing_secret, req, verdict, nextCalled, res,
                 classified, emitted, logged, handleRan, handleThrew, data,
                 events, emitThrew, views, prefetch, lastCall, replay>>

\* An inbound call arrives, signed under one of the secrets.
ReceiveSigned ==
  /\ UNCHANGED restVars
  /\ pc = "idle"
  /\ pc' = "middleware"
  /\ \E k \in Secrets :
       req' = Request(TsHeader(TRUE, TsText(2, "")),
                      SignatureOf(k, TsText(2, ""), <<"a">>), <<"a">>,
                      EmptyBody)
  /\ UNCHANGED <<nowMs, signing_secret, verdict, nextCalled, res, classified,
                 emitted, logged, handleRan, handleThrew, data, events,
                 emitThrew, views, prefetch>>
  /\ UNCHANGED settingsVars
  /\ UNCHANGED replay

\* While the call is handled, a call is made through this.api
\* (this.api.users.info, this.api.chat.postMessage, ...).
ApiCall ==
  /\ UNCHANGED restVars
  /\ pc = "handle"
  /\ lastCall' = PlatformCall("api", api)
  /\ pc' = "done"
  /\ handleRan' = TRUE
  /\ UNCHANGED <<nowMs, signing_secret, req, verdict, nextCalled, res,
                 classified, emitted, logged, handleThrew, data, events,
                 emitThrew, views, prefetch, access_token, api, previous,
                 replay>>

\* While the call is handled, a file is downloaded with the header
\* Authorization: Bearer ${settings.access_token} (getMessageAttachments).
DownloadCall ==
  /\ UNCHANGED restVars
  /\ pc = "handle"
  /\ lastCall' = PlatformCall("download", access_token)
  /\ pc' = "done"
  /\ handleRan' = TRUE
  /\ UNCHANGED <<nowMs, signing_secret, req, verdict, nextCalled, res,
                 classified, emitted, logged, handleThrew, data, events,
                 emitThrew, views, prefetch, access_token, api, previous,
                 replay>>

NextSettings ==
  \/ HandlerInit
  \/ ChangeSigningSecret
  \/ ChangeAccessToken
  \/ ReceiveSigned
  \/ Middleware
  \/ ApiCall
  \/ DownloadCall
  \/ Finish

SpecSettings == InitSettings /\ [][NextSettings]_vars

(***************************************************************************)
(* removeSlackMentions on its own, applied to every text.                  *)
(***************************************************************************)
InitMentions ==
  /\ pc = "mentions"
  /\ nowMs = 302000
  /\ signing_secret = "s1"
  /\ req = NoRequest
  /\ FreshCall
  /\ access_token = "t1"
  /\ api = access_token
  /\ lastCall = NoCall
  /\ previous = NoSettings
  /\ replay = NoReplay
  /\ \E t \in MentionTexts : mention = MentionCall(t, FALSE, <<>>)
  /\ UploadsAtRest
  /\ reread = NoReread

RemoveMentions ==
  /\ pc = "mentions"
  /\ mention' = MentionCall(mention.raw, TRUE,
                            RemoveSlackMentionsOf(mention.raw))
  /\ pc' = "mentionsRemoved"
  /\ UNCHANGED uploadVars
  /\ UNCHANGED reread
  /\ UNCHANGED <<nowMs, signing_secret, req, verdict, nextCalled, res,
                 classified, emitted, logged, handleRan, handleThrew, data,
                 events, emitThrew, views, prefetch, access_token, api,
                 lastCall, previous, replay>>

NextMentions == RemoveMentions

SpecMentions == InitMentions /\ [][NextMentions]_vars

(***************************************************************************)
(* The upload of stored attachments: the sweep of init(), the listener of  *)
(* hook:attachment:postCreate and the sending of attachments, interleaved  *)
(* at their awaits.                                                        *)
(***************************************************************************)
InitUpload ==
  /\ pc = "upload"
  /\ nowMs = 302000
  /\ signing_secret = "s1"
  /\ req = NoRequest
  /\ FreshCall
  /\ access_token = "t1"
  /\ api = access_token
  /\ lastCall = NoCall
  /\ previous = NoSettings
  /\ replay = NoReplay
  /\ mention = NoMention
  /\ reread = NoReread
  /\ store \in [Attachments -> {NoFile, SlackFile(1)}]
  /\ uploaded = [a \in Attachments |-> store[a].slackFile]
  /\ calls = [c \in Callers, a \in Attachments |-> NoUpload]

\* UploadAllStoredAttachements: find the attachments without a Slack file,
\* and call uploadImageIfNotExists on each of them.
SweepFind ==
  /\ \A a \in Attachments : calls["sweep", a].at = "idle"
  /\ calls' = [c \in Callers, a \in Attachments |->
                 IF c # "sweep" THEN calls[c, a]
                 ELSE IF store[a] = NoFile
                 THEN UploadImageIfNotExists(store[a])
                 ELSE UploadCall("skipped", store[a], NoFile, NoFile)]
  /\ UNCHANGED <<store, uploaded, mention, reread>>
  /\ UNCHANGED inboundVars

\* uploadAttachmentOnCreate(attachment): the attachment is not private.
HookPostCreate ==
  /\ \E a \in Attachments :
       /\ calls["hook", a].at = "idle"
       /\ calls' = [calls EXCEPT !["hook", a] =
                      IF store[a] # NoFile
                      THEN UploadCall("skipped", store[a], NoFile, NoFile)
                      ELSE UploadImageIfNotExists(store[a])]
  /\ UNCHANGED <<store, uploaded, mention, reread>>
  /\ UNCHANGED inboundVars

\* handleAttachment / _attachmentFormat: the attachment of an outgoing
\* message is read with findOne and given to uploadImageIfNotExists.
SendAttachment ==
  /\ \E a \in Attachments :
       /\ calls["send", a].at = "idle"
       /\ calls' = [calls EXCEPT !["send", a] =
                      UploadImageIfNotExists(store[a])]
  /\ UNCHANGED <<store, uploaded, mention, reread>>
  /\ UNCHANGED inboundVars

\* await this.uploadFile(attachment): Slack accepts the file and returns its
\* id, or the upload fails and uploadImageIfNotExists throws.
UploadFile ==
  /\ \E c \in Callers, a \in Attachments, ok \in BOOLEAN :
       /\ calls[c, a].at = "uploading"
       /\ IF ok
          THEN /\ uploaded' = [uploaded EXCEPT ![a] = @ + 1]
               /\ calls' = [calls EXCEPT ![c, a] =
                              UploadCall("updating", @.given,
                                         SlackFile(uploaded[a] + 1), NoFile)]
          ELSE /\ uploaded' = uploaded
               /\ calls' = [calls EXCEPT ![c, a] =
                              UploadCall("failed", @.given, NoFile, NoFile)]
  /\ UNCHANGED <<store, mention, reread>>
  /\ UNCHANGED inboundVars

\* return this.attachmentService.updateOne(attachmentId, {channel: ...})
UpdateOne ==
  /\ \E c \in Callers, a \in Attachments :
       /\ calls[c, a].at = "updating"
       /\ store' = [store EXCEPT ![a] = calls[c, a].file]
       /\ calls' = [calls EXCEPT ![c, a] =
                      UploadCall("done", @.given, @.file, @.file)]
  /\ UNCHANGED <<uploaded, mention, reread>>
  /\ UNCHANGED inboundVars

NextUpload ==
  \/ SweepFind
  \/ HookPostCreate
  \/ SendAttachment
  \/ UploadFile
  \/ UpdateOne

SpecUpload == InitUpload /\ [][NextUpload]_vars

(***************************************************************************)
(* Properties of request authentication (checked under SpecAuth).          *)
(***************************************************************************)
NowSec == nowMs \div 1000

\* The timestamp header is the decimal text of an integer.
ValidInteger(text) == text.digits # NaN /\ text.suffix = ""

\* Both headers are there and the signature header is not empty.
HeadersPresent ==
  /\ req.tsHeader.present
  /\ req.sigHeader.present
  /\ req.sigHeader.text # EmptyString

WithinSkew ==
  /\ req.tsHeader.present
  /\ ValidInteger(req.tsHeader.text)
  /\ NowSec - req.tsHeader.text.digits <= 60 * MaxStaleTimestampMinutes

\* The errors verifySlackRequest raises on purpose.
AuthenticationErrors ==
  {"MissingSignatureHeaders", "TimestampType", "Stale",
   "UnknownSignatureVersion", "SignatureMismatch"}

\* C1: a request within the skew window whose signature header is the HMAC
\* of "v0:{timestamp}:{rawBody}" under the signing secret is accepted, and a
\* request whose body differs from the body that was signed is rejected.
C1_SignedBodyAccepted_TamperedRejected ==
  (pc = "verified" /\ WithinSkew) =>
    /\ req.sigHeader =
         SignatureOf(signing_secret, req.tsHeader.text, req.rawBody)
       => verdict = "ok"
    /\ \A signed \in RawBodies :
         /\ signed # req.rawBody
         /\ req.sigHeader =
              SignatureOf(signing_secret, req.tsHeader.text, signed)
         => verdict # "ok"

\* C2: with both headers present and an integer timestamp, the request is
\* rejected as stale exactly when now - timestamp > maxSkewMinutes * 60.
C2_StaleExactlyBeyondSkew ==
  (pc = "verified" /\ HeadersPresent /\ ValidInteger(req.tsHeader.text)) =>
    (verdict = "Stale"
       <=> NowSec - req.tsHeader.text.digits > 60 * MaxStaleTimestampMinutes)

\* C3: a request without the signature header, without the timestamp
\* header, or whose timestamp header is not an integer is rejected with an
\* authentication error: it is not accepted and no other error is raised.
C3_BadHeadersRejectedAsAuthenticationError ==
  (/\ pc = "verified"
   /\ \/ ~req.sigHeader.present
      \/ ~req.tsHeader.present
      \/ ~ValidInteger(req.tsHeader.text))
  => verdict \in AuthenticationErrors

\* C4: an accepted request has a signature header that is exactly "v0="
\* followed by the hex digest.
C4_AcceptedSignatureIsExactlyV0Digest ==
  (pc = "verified" /\ verdict = "ok") =>
    req.sigHeader.text =
      <<Txt("v0"), Txt("=")>>
        \o OurSignatureHash(signing_secret, ParseInt(req.tsHeader.text),
                            req.rawBody)

(***************************************************************************)
(* Properties of the webhook path (checked under Spec).                    *)
(***************************************************************************)
AuthenticationFailed == verdict \notin {"pending", "ok"}

\* C5: when authentication fails the middleware answers 401, does not call
\* next(), and nothing of the body is classified, built or emitted.
C5_FailedAuthenticationIs401AndStops ==
  AuthenticationFailed =>
    /\ res = Response(401, "Unauthorized!")
    /\ ~nextCalled
    /\ pc = "done"
    /\ ~handleRan
    /\ classified = "none"
    /\ emitted = <<>>

C5_Witness ==
  /\ pc = "done"
  /\ verdict = "SignatureMismatch"
  /\ res.status = 401
  /\ req.body.fields.event # <<>>

\* C6: a 401 is sent only when authentication of the request failed.
C6_401OnlyOnAuthenticationFailure ==
  res.status = 401 => AuthenticationFailed

\* C7: every call ends with a response sent.
C7_EveryCallIsAnswered ==
  pc = "done" => res.status # NoResponse

\* C8: a url_verification body is answered 200 with the challenge as the
\* response body, and nothing is emitted.
C8_UrlVerificationEchoesChallenge ==
  (handleRan /\ req.body.fields.type = "url_verification") =>
    /\ res = Response(200, req.body.fields.challenge)
    /\ emitted = <<>>
    /\ ~handleThrew

C8_Witness ==
  /\ handleRan
  /\ req.body.fields.type = "url_verification"
  /\ req.body.fields.event # <<>>
  /\ res = Response(200, "abc123")

\* The decision list of the body classifier, first match wins.
DecisionList(body) ==
  IF body.fields.type = "url_verification" THEN "UrlVerification"
  ELSE IF body.payload.kind # "absent" THEN "BlockAction"
  ELSE IF body.fields.event # <<>> THEN "EventCallback"
  ELSE IF body.fields.actions.state = "array" THEN "BlockAction"
  ELSE IF body.fields.command # "absent" THEN "SlashCommand"
  ELSE "Unknown"

\* C9: a body of no known shape is answered 200 and nothing is emitted.
C9_UnknownBodyIsAcknowledged ==
  (handleRan /\ DecisionList(req.body) = "Unknown") =>
    /\ res.status = 200
    /\ emitted = <<>>

\* C10: the branch handle takes for a body is the one the decision list
\* gives.
C10_ClassificationFollowsDecisionList ==
  (handleRan /\ ~handleThrew) => classified = DecisionList(req.body)

\* The object a body is classified by: the object its payload holds, or the
\* body itself.
ClassifiedObject(body) ==
  IF body.payload.kind = "object" THEN body.payload.value ELSE body.fields

\* The first action of the body has the value "url".
FirstActionIsUrl(body) ==
  /\ body.payload.kind \in {"absent", "object"}
  /\ ClassifiedObject(body).actions.state = "array"
  /\ ClassifiedObject(body).actions.items # <<>>
  /\ ClassifiedObject(body).actions.items[1].value = "url"

\* C11: a BlockAction body whose first action has the value "url" is
\* answered 200 and no event is emitted.
C11_UrlBlockActionIsIgnored ==
  (/\ handleRan
   /\ DecisionList(req.body) = "BlockAction"
   /\ FirstActionIsUrl(req.body))
  => /\ res.status = 200
     /\ emitted = <<>>

\* The body has no field to take the channel type from.
CannotResolveChannel(e) ==
  \/ e.type = "block_actions" /\ e.channel = NoChannel
  \/ /\ e.type = "event_callback"
     /\ e.event[1].type # "message"
     /\ e.event[1].channel = NoChannel

\* C13: when an event is split in two, eventEmitter.emit is called for both
\* halves before the call is answered, whatever a listener raises; neither
\* is emitted only when the channel type of the body cannot be resolved.
C13_BothHalvesDispatched ==
  (handleRan /\ Len(events) = 2) =>
    /\ res.status = 200
    /\ IF CannotResolveChannel(data)
       THEN emitted = <<>>
       ELSE /\ Len(emitted) = 2
            /\ emitted[1].raw = events[1]
            /\ emitted[2].raw = events[2]

C13_Witness ==
  /\ handleRan
  /\ Len(events) = 2
  /\ emitThrew[1]
  /\ Len(emitted) = 2
  /\ emitted[2].messageType = "attachments"

\* C20: an event whose wrapper cannot be constructed is logged and not
\* emitted, the other events of the call are still processed (emitted, or
\* logged as unknown when the body is of no known type), and the call is
\* answered 200.
C20_FailedEventIsLoggedAndDropped ==
  (handleRan /\ events # <<>>) =>
    /\ res.status = 200
    /\ ~handleThrew
    /\ \A i \in 1..Len(events) :
         IF CannotResolveChannel(events[i])
         THEN /\ \A j \in 1..Len(emitted) : emitted[j].raw # events[i]
              /\ \E k \in 1..Len(logged) : logged[k] = "Something went wrong"
         ELSE \/ \E j \in 1..Len(emitted) : emitted[j].raw = events[i]
              \/ /\ events[i].type \notin {"block_actions", "event_callback"}
                 /\ \E k \in 1..Len(logged) :
                      logged[k] = "Webhook received unknown event"

C20_Witness ==
  /\ handleRan
  /\ events # <<>>
  /\ CannotResolveChannel(events[1])
  /\ emitted = <<>>
  /\ logged = <<"Something went wrong">>
  /\ res.status = 200

(***************************************************************************)
(* Properties of separateTextAndAttachments and of the wrapper (checked    *)
(* under SpecWrapper).                                                     *)
(***************************************************************************)
\* The inner event carries free text / at least one file.
HasFreeText(event) == event.text \notin {"absent", "undefined", ""}
HasFile(event) == event.files.state = "array" /\ event.files.items # <<>>

\* C12: separateTextAndAttachments returns two bodies exactly when the inner
\* event of the body carries both free text and at least one file: a body
\* with the text and no files, which is a text message, and a body with the
\* files and no text, which is an attachments message; otherwise it returns
\* the body alone.
C12_SplitExactlyTextWithFiles ==
  (pc = "normalized") =>
    IF /\ data.event # <<>>
       /\ HasFreeText(data.event[1])
       /\ HasFile(data.event[1])
    THEN /\ Len(events) = 2
         /\ \E i, j \in 1..2 :
              /\ i # j
              /\ events[i].event[1].text = data.event[1].text
              /\ ~HasFile(events[i].event[1])
              /\ views[i].constructed => views[i].messageType = "message"
              /\ events[j].event[1].files = data.event[1].files
              /\ ~HasFreeText(events[j].event[1])
              /\ views[j].constructed => views[j].messageType = "attachments"
    ELSE events = <<data>>

\* C14: an inner event with a bot_id is an echo, whatever its type, channel
\* type, text and files are.
C14_BotIdIsEcho ==
  (pc = "normalized") =>
    \A i \in 1..Len(views) :
      (/\ views[i].constructed
       /\ views[i].raw.type = "event_callback"
       /\ views[i].raw.event[1].bot_id # "absent")
      => views[i].eventType = "echo"

C14_Witness ==
  /\ pc = "normalized"
  /\ Len(views) = 2
  /\ views[2].constructed
  /\ views[2].raw.event[1].bot_id = "B1"
  /\ views[2].raw.event[1].type = "app_mention"
  /\ views[2].eventType = "echo"
  /\ views[2].messageType = "attachments"

MessageKindChain(e, eventType) ==
  IF eventType \notin {"echo", "message"} THEN "unknown"
  ELSE IF e.actions.state = "array" THEN "postback"
  ELSE IF e.event # <<>> /\ HasFile(e.event[1]) THEN "attachments"
  ELSE IF e.event # <<>> /\ HasFreeText(e.event[1]) THEN "message"
  ELSE "unknown"

\* The message kind of a wrapper; one that was never set is unknown.
MessageKindOf(view) ==
  IF view.messageType = "undefined" THEN "unknown" ELSE view.messageType

\* C16: the message kind is the one the chain actions, files, text gives,
\* and unknown when the event kind is unknown or none of them is there; of
\* an unknown message kind, getPayload and getMessage return undefined and
\* do not throw.
C16_MessageKindFollowsChain ==
  (pc = "normalized") =>
    \A i \in 1..Len(views) :
      views[i].constructed =>
        /\ MessageKindOf(views[i])
             = MessageKindChain(views[i].raw, views[i].eventType)
        /\ MessageKindChain(views[i].raw, views[i].eventType) = "unknown"
           => /\ views[i].payload = Result(FALSE, "", NoPayloadValue)
              /\ ~views[i].message.threw

\* The conversation is direct.
IsDirect(view) == view.channelType = "im"

C19_IdentityIsNeverUndefined ==
  (pc = "normalized") =>
    \A i \in 1..Len(views) :
      views[i].constructed =>
        /\ ~views[i].sender.threw => views[i].sender.value # NoId
        /\ ~views[i].user.threw => views[i].user.value # NoId

\* The channel type the rule gives for a body: the channel_type field of a
\* message event, otherwise the one the prefix of the conversation identifier
\* stands for ("undefined": there is no identifier to look at).
ChannelTypeRule(e) ==
  LET explicit == IF e.type = "event_callback" /\ e.event[1].type = "message"
                  THEN e.event[1].channel_type ELSE "absent"
      id == IF e.type = "event_callback" THEN e.event[1].channel
            ELSE e.channel
  IN  IF explicit # "absent" THEN explicit
      ELSE IF id # NoChannel THEN ChannelTypeOfId(id)
      ELSE "undefined"

\* C21: the channel type getChannelType returns is the channel_type field of
\* a message event that has one, and otherwise (message event without
\* channel_type, app mention, block action) "im" when the conversation
\* identifier begins with "D" and "channel" when it does not; it is never
\* undefined.
C21_ChannelTypeVerbatimOrByPrefix ==
  (pc = "normalized") =>
    \A i \in 1..Len(views) :
      (/\ views[i].constructed
       /\ views[i].raw.type \in {"event_callback", "block_actions"})
      => /\ views[i].channelType # "undefined"
         /\ ChannelTypeRule(views[i].raw) # "undefined"
            => views[i].channelType = ChannelTypeRule(views[i].raw)

(***************************************************************************)
(* Properties of the attachment prefetch (checked under Spec).             *)
(***************************************************************************)
\* The event is a received message with files.
IsAttachmentsMessage(w) ==
  w.eventType = "message" /\ w.messageType = "attachments"

\* C22: when getMessageAttachments is called on a received message with
\* files and the download of one of the files fails, the call fails and gives
\* no list; when every download succeeds it gives one entry per file, in the
\* order of the files.
C22_PrefetchIsAllOrNothing ==
  (prefetch.ran /\ IsAttachmentsMessage(emitted[prefetch.event])) =>
    LET files == emitted[prefetch.event].raw.event[1].files.items
    IN  IF \E k \in 1..Len(files) : ~prefetch.fetchOk[k]
        THEN prefetch.result = Result(TRUE, "AxiosError", <<>>)
        ELSE /\ ~prefetch.result.threw
             /\ Len(prefetch.result.value) = Len(files)
             /\ \A k \in 1..Len(files) :
                  prefetch.result.value[k] = AttachmentFile(files[k])

C22_Witness ==
  /\ prefetch.ran
  /\ IsAttachmentsMessage(emitted[prefetch.event])
  /\ Len(emitted[prefetch.event].raw.event[1].files.items) = 2
  /\ prefetch.fetchOk = <<TRUE, FALSE>>
  /\ prefetch.result.threw

\* C23: an event with message kind attachments that has been given to
\* eventEmitter.emit has had its files fetched: getMessageAttachments has run
\* on it and has given its list.
C23_PrefetchedBeforeEmitted ==
  \A i \in 1..Len(emitted) :
    emitted[i].messageType = "attachments" =>
      /\ prefetch.ran
      /\ prefetch.event = i
      /\ ~prefetch.result.threw
      /\ Len(prefetch.result.value)
           = Len(emitted[i].raw.event[1].files.items)

(***************************************************************************)
(* Properties of the settings (checked under SpecSettings).                *)
(***************************************************************************)
\* The request carries the signature of its body under this secret.
SignedUnder(secret) ==
  req.sigHeader = SignatureOf(secret, req.tsHeader.text, req.rawBody)

\* C24: once a setting has been changed, authentication goes by the signing
\* secret of the settings as they are now (a request signed under the secret
\* before the change is rejected, one signed under the secret after the
\* change is accepted), and every call to the platform carries the access
\* token of the settings as they are now; the client holds no other token.
C24_ChangedSettingsAreUsed ==
  /\ verdict # "pending" =>
       /\ SignedUnder(signing_secret) => verdict = "ok"
       /\ (\E k \in Secrets \ {signing_secret} : SignedUnder(k))
          => verdict = "SignatureMismatch"
       /\ (previous.signing_secret \notin {"none", signing_secret}
           /\ SignedUnder(previous.signing_secret))
          => verdict = "SignatureMismatch"
  /\ lastCall # NoCall => lastCall.token = access_token
  /\ api \in {NoClient, access_token}
  /\ pc # "start" => api = access_token

C24_Witness ==
  /\ previous.signing_secret = "s1"
  /\ signing_secret = "s2"
  /\ previous.access_token = "t1"
  /\ access_token = "t2"
  /\ SignedUnder("s2")
  /\ verdict = "ok"
  /\ lastCall = PlatformCall("api", "t2")

MentionLen(t, i) ==
  IF t[i] # "<@" \/ i + 1 > Len(t) THEN 0
  ELSE IF t[i + 1] \notin {"U", "W"} THEN 0
  ELSE LET j == AlnumEnd(t, i + 2)
       IN  IF j > Len(t) THEN 0
           ELSE IF t[j] = ">" THEN j - i + 1
           ELSE IF t[j] = "|l" /\ CloseAt(t, j) <= Len(t)
           THEN CloseAt(t, j) - i + 1
           ELSE 0

\* The text without its mentions, from index i on.
RECURSIVE WithoutMentions(_, _)
WithoutMentions(t, i) ==
  IF i > Len(t) THEN <<>>
  ELSE IF MentionLen(t, i) > 0 THEN WithoutMentions(t, i + MentionLen(t, i))
  ELSE <<t[i]>> \o WithoutMentions(t, i + 1)

\* C26: what removeSlackMentions returns is the text without its user
\* mentions (<@ID> and <@ID|label>) and without the blanks around it, nothing
\* else of the text is changed, and no user mention is left in it.
C26_MentionsRemovedAndTrimmed ==
  mention.done =>
    /\ mention.result = Trim(WithoutMentions(mention.raw, 1))
    /\ \A i \in 1..Len(mention.result) : MentionLen(mention.result, i) = 0

(***************************************************************************)
(* Properties of the upload of attachments (checked under SpecUpload).     *)
(***************************************************************************)
\* C27: Slack accepts at most one upload of each stored attachment, whatever
\* the order of the sweep, the post-create listener and the sending of
\* attachments, and a call of uploadImageIfNotExists on an attachment that
\* has a Slack file returns it as it is, without an upload.
C27_UploadedAtMostOnce ==
  \A a \in Attachments :
    /\ uploaded[a] <= 1
    /\ \A c \in Callers :
         (calls[c, a].at = "done" /\ calls[c, a].given # NoFile)
         => /\ calls[c, a].returned = calls[c, a].given
            /\ calls[c, a].file = NoFile

(***************************************************************************)
(* Properties of the order of the steps of a call (checked under Spec).    *)
(***************************************************************************)
\* Something of the body has been parsed, classified, logged or emitted.
BodyTouched ==
  \/ handleRan
  \/ classified # "none"
  \/ data # NoObj
  \/ events # <<>>
  \/ emitted # <<>>
  \/ logged # <<>>

\* C28: as long as the signature check of a call has not succeeded, no
\* response other than 401 is sent for it (the challenge of a
\* url_verification body included) and nothing of its body is parsed,
\* classified or emitted.
C28_AuthenticationComesFirst ==
  verdict # "ok" =>
    /\ res.status \in {NoResponse, 401}
    /\ ~nextCalled
    /\ ~BodyTouched

C28_Witness ==
  /\ verdict = "ok"
  /\ handleRan
  /\ classified = "UrlVerification"
  /\ res = Response(200, "abc123")

\* The first action of a body has the value "url".
FirstValueIsUrl(e) ==
  /\ e.actions.state = "array"
  /\ e.actions.items # <<>>
  /\ e.actions.items[1].value = "url"

\* The body is a block action whose first action is not a "url" action, or
\* an event callback with an inner event of type message or app_mention.
Emittable(e) ==
  IF e.event = <<>>
  THEN /\ e.type = "block_actions"
       /\ e.actions.state = "array"
       /\ ~FirstValueIsUrl(e)
  ELSE /\ e.type = "event_callback"
       /\ e.event[1].type \in {"message", "app_mention"}

\* C29: every event given to eventEmitter.emit has an event type other than
\* unknown and a body that is a block action whose first action is not a
\* "url" action or an event callback with an inner event of type message or
\* app_mention; a body with an inner event of any other type,
\* app_home_opened included, is answered 200 and nothing is emitted.
C29_OnlySupportedEventsAreEmitted ==
  /\ \A i \in 1..Len(emitted) :
       /\ emitted[i].eventType # "unknown"
       /\ Emittable(emitted[i].raw)
  /\ (/\ handleRan
      /\ data.event # <<>>
      /\ data.event[1].type \notin {"message", "app_mention"})
     => /\ res.status = 200
        /\ emitted = <<>>

C29_Witness ==
  /\ handleRan
  /\ Len(emitted) = 1
  /\ emitted[1].raw.type = "block_actions"
  /\ emitted[1].raw.actions.items = <<Action("yes")>>
  /\ emitted[1].eventType = "message"
  /\ res.status = 200

(***************************************************************************)
(* Properties of the getters read twice (checked under SpecWrapper).       *)
(***************************************************************************)
\* C30: what getEventType, getMessageType, getPayload and getId gave the
\* first time is what they give every later time, also when the body of the
\* event has been written to in between.
C30_DerivedFieldsAreStable ==
  reread.done =>
    \A i \in 1..Len(views) :
      views[i].constructed =>
        /\ reread.views[i].eventType = views[i].eventType
        /\ reread.views[i].messageType = views[i].messageType
        /\ reread.views[i].payload = views[i].payload
        /\ reread.views[i].id = views[i].id

====
